---- MODULE Spec2Model ----
(***************************************************************************)
(* The Streamlit front end of the deepfake detector: one analysis run of   *)
(* main() (dump_code/app_fixed.py and dump_code/app_new.py), the upload    *)
(* call send_video_to_api, the ranking process_predictions, the Instagram  *)
(* download and its cleanup.                                               *)
(*                                                                         *)
(* Numbers.  A JSON / Python number x is held in fixed point as the        *)
(* integer x * 100 (hundredths): 0.7 is 70, the int 70 is 7000.            *)
(* Python values are records [t, v, n]: t the type, v the number (or the   *)
(* ordinal of a string's character), n a string's length.                  *)
(***************************************************************************)
EXTENDS Integers, Sequences, FiniteSets, TLC

(* ------------------------------ config.py ----------------------------- *)

API_TIMEOUT == 180
HIGH_CONFIDENCE_THRESHOLD == 70
MEDIUM_CONFIDENCE_THRESHOLD == 40
CONFIGURED_ENDPOINT == "https://e384961c5981.ngrok-free.app"
PLACEHOLDER_ENDPOINT == "https://your-ngrok-url.ngrok.io"

(* The number of predictions main() requires: len(predictions) == 17.      *)
EXPECTED_PREDICTIONS == 17

(* ------------------------------ LABEL_MAP ----------------------------- *)

(* A faulty variant of the table: index 16 repeats the name of index 12.   *)
LABEL_MAP_dup ==
    (0 :> "AI_GEN" @@ 1 :> "ANIME_1D" @@ 2 :> "ANIME_2D" @@ 3 :> "VIDEO_GAME"
     @@ 4 :> "KLING" @@ 5 :> "HIGGSFIELD" @@ 6 :> "WAN" @@ 7 :> "MIDJOURNEY"
     @@ 8 :> "HAILUO" @@ 9 :> "RAY" @@ 10 :> "VEO" @@ 11 :> "RUNWAY"
     @@ 12 :> "SORA" @@ 13 :> "CHATGPT" @@ 14 :> "PIKA" @@ 15 :> "HUNYUAN"
     @@ 16 :> "SORA")

LABEL_MAP ==
    (0 :> "AI_GEN" @@ 1 :> "ANIME_1D" @@ 2 :> "ANIME_2D" @@ 3 :> "VIDEO_GAME"
     @@ 4 :> "KLING" @@ 5 :> "HIGGSFIELD" @@ 6 :> "WAN" @@ 7 :> "MIDJOURNEY"
     @@ 8 :> "HAILUO" @@ 9 :> "RAY" @@ 10 :> "VEO" @@ 11 :> "RUNWAY"
     @@ 12 :> "SORA" @@ 13 :> "CHATGPT" @@ 14 :> "PIKA" @@ 15 :> "HUNYUAN"
     @@ 16 :> "VIDU")

(* LABEL_MAP.get(idx, f"UNKNOWN_{idx}")                                     *)
LabelGet(idx) ==
    IF idx \in DOMAIN LABEL_MAP THEN LABEL_MAP[idx]
    ELSE "UNKNOWN_" \o ToString(idx)

(* --------------------------- Python values ---------------------------- *)

Fixed(i) == i * 100                       \* the Python int i, in hundredths
Num(h) == [t |-> "num", v |-> h, n |-> 0]       \* a float or int, h hundredths
Bool(b) == [t |-> "bool", v |-> b, n |-> 0]     \* JSON true (1) / false (0)
Str(c, len) == [t |-> "str", v |-> c, n |-> len] \* len times the character c
PyNone == [t |-> "null", v |-> 0, n |-> 0]

Ok(x) == [ok |-> TRUE, val |-> x, exc |-> "none"]
Raise(e) == [ok |-> FALSE, val |-> PyNone, exc |-> e]

(* prob * 100: a number is multiplied, a bool is an int, a str is repeated, *)
(* None raises TypeError.                                                   *)
PyMul100(x) ==
    CASE x.t = "num" -> Ok(Num(x.v * 100))
      [] x.t = "bool" -> Ok(Num(Fixed(x.v) * 100))
      [] x.t = "str" -> Ok(Str(x.v, x.n * 100))
      [] OTHER -> Raise("TypeError")

(* a > b for two values of one type; numbers by value, strings              *)
(* lexicographically (same character: the longer is the greater).          *)
PyGt(a, b) ==
    IF a.t = "str" THEN a.v > b.v \/ (a.v = b.v /\ a.n > b.n)
    ELSE a.v > b.v

(* A faulty variant: >= in place of >.                                     *)
GtInt_ge(x, i) ==
    IF x.t = "num" THEN Ok(x.v >= Fixed(i)) ELSE Raise("TypeError")

(* confidence > threshold, threshold a Python int: str > int raises.       *)
GtInt(x, i) ==
    IF x.t = "num" THEN Ok(x.v > Fixed(i)) ELSE Raise("TypeError")

(* f"{x:.2f}": the value rounded to two decimals, as (integer part,        *)
(* two-digit fraction).  Only numbers format.                              *)
Format2f(x) ==
    IF x.t = "num" THEN Ok(<<x.v \div 100, x.v % 100>>) ELSE Raise("TypeError")

(* ------------------------- process_predictions ------------------------ *)

COLUMNS == <<"Label Name", "Probability (%)">>

Row(label, pct) == ("Label Name" :> label @@ "Probability (%)" :> pct)

(* The loop of process_predictions: data[k] for the k-th prediction         *)
(* (index k - 1), or the exception prob * 100 raised.                       *)
BuildData(predictions) ==
    LET muls == [k \in 1..Len(predictions) |-> PyMul100(predictions[k])]
    IN IF \E k \in 1..Len(predictions) : ~muls[k].ok
       THEN Raise("TypeError")
       ELSE Ok([k \in 1..Len(predictions) |->
                    Row(LabelGet(k - 1), muls[k].val)])

(* One insertion of the descending sort.  Rows of equal percentage keep    *)
(* their input order under "stable" and reverse it under "reverse": the    *)
(* default sort kind (quicksort) leaves the order of ties to the build.    *)
RECURSIVE InsertDesc(_, _, _)
InsertDesc(r, s, kind) ==
    IF s = <<>> THEN <<r>>
    ELSE LET h == Head(s)["Probability (%)"]
             p == r["Probability (%)"]
             before == IF kind = "stable" THEN PyGt(p, h) ELSE ~PyGt(h, p)
         IN IF before THEN <<r>> \o s
            ELSE <<Head(s)>> \o InsertDesc(r, Tail(s), kind)

RECURSIVE SortDesc(_, _)
SortDesc(rows, kind) ==
    IF rows = <<>> THEN <<>>
    ELSE InsertDesc(rows[Len(rows)],
                    SortDesc(SubSeq(rows, 1, Len(rows) - 1), kind), kind)

(* A faulty variant of the sort: ascending=True.                           *)
SortAsc(rows, kind) ==
    LET d == SortDesc(rows, kind)
    IN [k \in 1..Len(d) |-> d[Len(d) + 1 - k]]

sort_values_ascending(rows, kind) ==
    IF rows = <<>> THEN Raise("KeyError")
    ELSE IF \E j, k \in 1..Len(rows) :
                rows[j]["Probability (%)"].t # rows[k]["Probability (%)"].t
         THEN Raise("TypeError")
         ELSE Ok(SortAsc(rows, kind))

(* df.sort_values("Probability (%)", ascending=False).reset_index(drop=True) *)
(* An empty frame has no such column (KeyError); a column of mixed str and  *)
(* numbers does not compare (TypeError).                                    *)
sort_values(rows, kind) ==
    IF rows = <<>> THEN Raise("KeyError")
    ELSE IF \E j, k \in 1..Len(rows) :
                rows[j]["Probability (%)"].t # rows[k]["Probability (%)"].t
         THEN Raise("TypeError")
         ELSE Ok(SortDesc(rows, kind))

process_predictions(predictions, kind) ==
    LET data == BuildData(predictions)
    IN IF ~data.ok THEN data
       ELSE LET sorted == sort_values(data.val, kind)
            IN IF ~sorted.ok THEN sorted
               ELSE Ok([columns |-> COLUMNS, rows |-> sorted.val])

(* ------------------------------ bounds -------------------------------- *)

MaxRuns == 2          \* clicks of "Analyze Video" in one behaviour
LenSlack == 1         \* prediction counts EXPECTED_PREDICTIONS -+ LenSlack

(* ------------------------------ inputs -------------------------------- *)

(* The two application variants.                                           *)
Apps == {"app_fixed", "app_new"}

(* The programs of the repository: the two variants and test_api.py.      *)
Programs == Apps \cup {"test_api"}

(* The order the build's sort gives rows of equal percentage.              *)
SortKinds == {"stable", "reverse"}

(* Text of the Instagram URL field: a URL is scheme, optional www., host,  *)
(* the first path segment and whether a post id follows it.                *)
Url(scheme, www, host, seg, id) ==
    [scheme |-> scheme, www |-> www, host |-> host, seg |-> seg, id |-> id]
NoUrl == Url("", FALSE, "", "", FALSE)
Urls ==
    { NoUrl,
      Url("https", TRUE, "instagram.com", "p", TRUE),
      Url("http", FALSE, "instagram.com", "reel", TRUE),
      Url("https", TRUE, "instagram.com", "stories", TRUE),
      Url("https", TRUE, "example.com", "p", TRUE),
      Url("https", FALSE, "instagram.com", "tv", FALSE) }

(* The three patterns: ^https?://(www\.)?instagram\.com/(p|reel|tv)/id     *)
is_valid_instagram_url(url) ==
    /\ url.scheme \in {"http", "https"}
    /\ url.host = "instagram.com"
    /\ url.seg \in {"p", "reel", "tv"}
    /\ url.id

(* The uploader's value: None or the uploaded file's name.                 *)
UploadedFiles == {"None", "clip.mp4"}

(* Probabilities (hundredths) around the two thresholds.                   *)
ProbValues ==
    { 0, MEDIUM_CONFIDENCE_THRESHOLD, MEDIUM_CONFIDENCE_THRESHOLD + 1,
      HIGH_CONFIDENCE_THRESHOLD, HIGH_CONFIDENCE_THRESHOLD + 1 }

Lengths ==
    {0} \cup ((EXPECTED_PREDICTIONS - LenSlack)..(EXPECTED_PREDICTIONS + LenSlack))

ListOf(len, x) == [k \in 1..len |-> x]

(* A list of EXPECTED_PREDICTIONS numbers: c everywhere but a at i, b at j. *)
Spiked(i, a, j, b, c) ==
    [k \in 1..EXPECTED_PREDICTIONS |->
        IF k = i THEN Num(a) ELSE IF k = j THEN Num(b) ELSE Num(c)]

NumberLists ==
    { Spiked(i, a, j, b, c) :
        i \in 1..EXPECTED_PREDICTIONS,
        j \in {1, EXPECTED_PREDICTIONS},
        a \in ProbValues, b \in {0, HIGH_CONFIDENCE_THRESHOLD},
        c \in {0, MEDIUM_CONFIDENCE_THRESHOLD} }

(* Lists of the expected length whose elements are not all numbers.        *)
OddLists ==
    { ListOf(EXPECTED_PREDICTIONS, Str(1, 1)),
      ListOf(EXPECTED_PREDICTIONS, PyNone),
      [k \in 1..EXPECTED_PREDICTIONS |-> Bool(k % 2)],
      [k \in 1..EXPECTED_PREDICTIONS |->
          IF k = 1 THEN Str(1, 1) ELSE Num(HIGH_CONFIDENCE_THRESHOLD)] }

WrongLengthLists ==
    { ListOf(len, x) :
        len \in Lengths \ {EXPECTED_PREDICTIONS},
        x \in {Num(0), Num(HIGH_CONFIDENCE_THRESHOLD + 1), Str(1, 1)} }

(* What the upload call ends with: an exception of requests (exc), or a    *)
(* response with its status and body.  json is what response.json() finds: *)
(* "invalid" (not JSON), "null", "array", or "object"; pkind and items are *)
(* the object's predictions field: missing, null, a number, a string (its  *)
(* characters), an object (its keys) or a list (its elements).             *)
Response(exc, status, json, pkind, items) ==
    [exc |-> exc, status |-> status, json |-> json, pkind |-> pkind,
     items |-> items]
NoResponse == Response("none", 0, "none", "none", <<>>)

Exceptions == {"ConnectionError", "ProxyError", "SSLError", "ConnectTimeout",
               "Timeout", "ReadTimeout", "TooManyRedirects",
               "ChunkedEncodingError"}

Responses ==
    { Response(e, 0, "none", "none", <<>>) : e \in Exceptions }
    \cup { Response("none", s, "invalid", "none", <<>>) : s \in {404, 500} }
    \cup { Response("none", 200, j, "none", <<>>) : j \in {"invalid", "null", "array"} }
    \cup { Response("none", 200, "object", k, <<>>) : k \in {"missing", "null", "num"} }
    \cup { Response("none", 200, "object", "str", ListOf(len, Str(1, 1))) :
             len \in Lengths }
    \cup { Response("none", 200, "object", "dict", [k \in 1..len |-> Str(k, 1)]) :
             len \in Lengths }
    \cup { Response("none", 200, "object", "list", l) :
             l \in NumberLists \cup OddLists \cup WrongLengthLists }

(* The class hierarchy of requests.exceptions: the classes e is an         *)
(* instance of.  ConnectTimeout derives from ConnectionError and Timeout.  *)
Bases(e) ==
    CASE e \in {"ProxyError", "SSLError"} -> {e, "ConnectionError", "RequestException", "Exception"}
      [] e = "ConnectTimeout" -> {e, "ConnectionError", "Timeout", "RequestException", "Exception"}
      [] e = "ReadTimeout" -> {e, "Timeout", "RequestException", "Exception"}
      [] e \in {"ConnectionError", "Timeout", "TooManyRedirects",
                "ChunkedEncodingError", "JSONDecodeError"} ->
             {e, "RequestException", "Exception"}
      [] e \in {"KeyboardInterrupt", "SystemExit"} -> {e, "BaseException"}
      [] OTHER -> {e, "Exception"}

(* ------------------------------- state -------------------------------- *)

VARIABLES
    app,               \* the program run: "app_fixed", "app_new" or "test_api"
    sortKind,          \* the build's order of ties in sort_values
    label_map,         \* the module's LABEL_MAP dict as it is now
    script,            \* test_api.py: position, requests sent, output, exit status
    API_ENDPOINT,      \* config.API_ENDPOINT
    pc,                \* "idle", "downloading", "posting", "sleeping", "done"
    runs,              \* clicks of "Analyze Video" so far
    uploaded_file,     \* "None" or the uploaded file's name
    has_instagram_url, \* instagram_url and is_valid_instagram_url(instagram_url)
    video_to_process,  \* "None" or the name of the file object sent
    temp_file_path,    \* "None" or the downloaded file's path
    posts,             \* POSTs to {API_ENDPOINT}/detect issued in this run
    response,          \* what the POST of this run ended with
    calls,             \* calls of process_predictions in this run
    df,                \* <<>> or <<the ranked table>>
    ui,                \* the elements the run has put on the page, in order
    results,           \* <<>> or <<what the results section shows>>
    progress_bar,      \* <<>> (empty) or <<value>>
    progress_log,      \* the values progress_bar was given in this run, in order
    status_text,       \* "" (empty) or the text
    disk               \* the run's temporary directory and file

vars == <<app, sortKind, label_map, script, API_ENDPOINT, pc, runs, uploaded_file,
          has_instagram_url, video_to_process, temp_file_path, posts,
          response, calls, df, ui, results, progress_bar, progress_log,
          status_text, disk>>

(* script: pc is "start", "connecting" (in requests.get), "asking" (in     *)
(* input()), "detecting" (in requests.post), "completed" or "exited";      *)
(* requests are the requests issued; out is what was printed after the     *)
(* banner; status is <<>> or <<the exit status>>.                          *)
NotRun == [pc |-> "start", requests |-> <<>>, out |-> <<>>, status |-> <<>>]

(* disk: dir and file are "absent", "present" or "removed"; removals are   *)
(* the removals attempted ("file": os.remove, "dir": os.rmdir).            *)
NoDisk == [dir |-> "absent", file |-> "absent", removals |-> {}]

DOWNLOADED_PATH == "<temp_dir>/instagram_video.mp4"

(* ------------------------------ the page ------------------------------ *)

El(w, text) == [w |-> w, text |-> text]

MsgNoInput(a) ==
    IF a = "app_fixed"
    THEN "Please upload a video file or provide a valid Instagram URL first!"
    ELSE "Please upload a video file first!"
MsgUnavailable == "Service temporarily unavailable. Please try again later."
MsgDeveloper == "If you're the developer, update the API_ENDPOINT in config.py"
MsgInvalidUrl == "Please enter a valid Instagram URL"
MsgDownloadFailed ==
    "Failed to download Instagram video. The post might be private or the URL is incorrect."
MsgFailed == "Failed to analyze the video. Please try again."
MsgInvalid(len) ==
    "Invalid service response: Expected 17 predictions, got " \o ToString(len)
MsgUnexpected == "An unexpected error occurred while processing your video."
MsgServiceError(a, status) ==
    IF a = "app_fixed" THEN "Service Error: " \o ToString(status)
    ELSE "Service Error: " \o ToString(status) \o " - <response.text>"
MsgConnect ==
    "Could not connect to the detection service. Please try again later."
MsgTimeout(a) ==
    IF a = "app_fixed"
    THEN "Request timed out. Please try again with a smaller video."
    ELSE "Request timed out. The video might be too large or the service is busy."
MsgApiError(a) ==
    IF a = "app_fixed" THEN "An error occurred while processing your video."
    ELSE "Unexpected error occurred while processing your video."

HEADER == "### Detection Results"
AlertHigh == "High confidence AI-generated content detected!"
AlertMedium == "Possible AI-generated content detected."
AlertLow == "Low probability of AI-generated content."

(* The except branch of main(): app_new adds the details checkbox.         *)
ExceptUi(a) ==
    IF a = "app_fixed" THEN <<El("error", MsgUnexpected)>>
    ELSE <<El("error", MsgUnexpected),
           El("checkbox", "Show error details (developers only)")>>

(* ------------------------- cleanup_temp_files ------------------------- *)

(* os.remove of an existing file, then os.rmdir of its directory when it   *)
(* is empty; removeOk: os.remove succeeds (a failure is swallowed).        *)
cleanup_temp_files(d, file_path, removeOk) ==
    IF file_path = "None" \/ d.file # "present" THEN d
    ELSE IF ~removeOk THEN [d EXCEPT !.removals = @ \cup {"file"}]
    ELSE IF d.dir = "present"
         THEN [dir |-> "removed", file |-> "removed",
               removals |-> d.removals \cup {"file", "dir"}]
         ELSE [d EXCEPT !.file = "removed", !.removals = @ \cup {"file"}]

(* finally: if temp_file_path: cleanup_temp_files(temp_file_path)          *)
Finally(d, file_path, removeOk) ==
    IF file_path # "None" THEN cleanup_temp_files(d, file_path, removeOk)
    ELSE d

(* ------------------------- the results section ------------------------ *)

(* The alert of the top prediction: st.error above the high threshold,     *)
(* st.warning above the medium one, st.success otherwise.                  *)
AlertOf(confidence) ==
    IF GtInt(confidence, HIGH_CONFIDENCE_THRESHOLD).val
    THEN El("error", AlertHigh)
    ELSE IF GtInt(confidence, MEDIUM_CONFIDENCE_THRESHOLD).val
         THEN El("warning", AlertMedium)
         ELSE El("success", AlertLow)

(* display_df: the percentages formatted f"{x:.2f}%".                      *)
DisplayDf(rows) ==
    [k \in 1..Len(rows) |->
        Row(rows[k]["Label Name"], Format2f(rows[k]["Probability (%)"]).val)]

(* create_probability_chart: df.head(10)                                   *)
create_probability_chart(rows) ==
    SubSeq(rows, 1, IF Len(rows) < 10 THEN Len(rows) ELSE 10)

RECURSIVE SumPct(_)
SumPct(rows) ==
    IF rows = <<>> THEN 0
    ELSE Head(rows)["Probability (%)"].v + SumPct(Tail(rows))

(* The four st.metric values of the summary tab.                           *)
Metrics(rows) ==
    [highest |-> Format2f(rows[1]["Probability (%)"]).val,
     average |-> Format2f(Num(SumPct(rows) \div Len(rows))).val,
     lowest |-> Format2f(rows[Len(rows)]["Probability (%)"]).val,
     above10 |-> Cardinality({k \in 1..Len(rows) :
                     rows[k]["Probability (%)"].v > Fixed(10)})]

(* A faulty variant: to_csv with the index column written (index=True).   *)
to_csv_index(table) ==
    [header |-> <<"">> \o table.columns,
     lines |-> [k \in 1..Len(table.rows) |->
                  <<ToString(k - 1), table.rows[k][table.columns[1]],
                    table.rows[k][table.columns[2]].v \div 100,
                    table.rows[k][table.columns[2]].v % 100>>]]

(* df.to_csv(index=False): the header line from the columns, then one line *)
(* per row, the number written as integer part and fraction.               *)
to_csv(table) ==
    [header |-> table.columns,
     lines |-> [k \in 1..Len(table.rows) |->
                  <<table.rows[k][table.columns[1]],
                    table.rows[k][table.columns[2]].v \div 100,
                    table.rows[k][table.columns[2]].v % 100>>]]

(* A faulty variant: app_fixed always names the download after the        *)
(* uploaded file.                                                          *)
FileName_upload(a, hasIg, file) ==
    IF a = "app_new" THEN Ok("detection_results_" \o file \o "_<time>.csv")
    ELSE IF file = "None" THEN Raise("AttributeError")
    ELSE Ok("video_analysis_" \o file \o "_<time>.csv")

(* The download's file name; uploaded_file.name of None raises.            *)
FileName(a, hasIg, file) ==
    IF a = "app_new" THEN Ok("detection_results_" \o file \o "_<time>.csv")
    ELSE IF hasIg THEN Ok("instagram_analysis_<time>.csv")
    ELSE IF file = "None" THEN Raise("AttributeError")
    ELSE Ok("video_analysis_" \o file \o "_<time>.csv")

SectionHead == <<El("markdown", "---"), El("markdown", HEADER)>>

SectionBody(alert) ==
    << alert,
       El("markdown", "**Most likely classification:**"),
       El("markdown", "#### Detailed Predictions"),
       El("dataframe", "display_df"),
       El("markdown", "#### Probability Visualization"),
       El("plotly_chart", "Top 10 Detection Probabilities"),
       El("markdown", "#### Summary Statistics"),
       El("metric", "Highest Probability"),
       El("metric", "Average Probability"),
       El("metric", "Lowest Probability"),
       El("metric", "Predictions > 10%"),
       El("markdown", "---") >>

(* main() from the results header to the download button: the elements put *)
(* on the page and what they show; an exception on the way leaves what was *)
(* already put and adds the except branch's message.                       *)
RenderResults(a, table, hasIg, file) ==
    LET confidence == table.rows[1]["Probability (%)"]
        name == FileName(a, hasIg, file)
    IN IF ~GtInt(confidence, HIGH_CONFIDENCE_THRESHOLD).ok
       THEN [ui |-> SectionHead \o ExceptUi(a), results |-> <<>>]
       ELSE IF ~name.ok
       THEN [ui |-> SectionHead \o SectionBody(AlertOf(confidence)) \o ExceptUi(a),
             results |-> <<>>]
       ELSE [ui |-> SectionHead \o SectionBody(AlertOf(confidence))
                      \o <<El("download_button", "Download Results as CSV")>>,
             results |->
               <<[alert |-> AlertOf(confidence).w,
                  top |-> <<table.rows[1]["Label Name"], Format2f(confidence).val>>,
                  display_df |-> DisplayDf(table.rows),
                  chart |-> create_probability_chart(table.rows),
                  metrics |-> Metrics(table.rows),
                  csv |-> to_csv(table),
                  file_name |-> name.val]>>]

(* -------------------------- send_video_to_api ------------------------- *)

(* A faulty variant: the Timeout clause written first.                    *)
ExceptClause_timeout_first(e) ==
    IF "Timeout" \in Bases(e) THEN "Timeout"
    ELSE IF "ConnectionError" \in Bases(e) THEN "ConnectionError"
    ELSE IF "Exception" \in Bases(e) THEN "Exception"
    ELSE "uncaught"

(* The except clause that catches exception e: the clauses are tried in    *)
(* the order ConnectionError, Timeout, Exception; no clause catches an     *)
(* exception that is no Exception, which propagates.                       *)
ExceptClause(e) ==
    IF "ConnectionError" \in Bases(e) THEN "ConnectionError"
    ELSE IF "Timeout" \in Bases(e) THEN "Timeout"
    ELSE IF "Exception" \in Bases(e) THEN "Exception"
    ELSE "uncaught"

(* A faulty variant: one message for every clause.                        *)
ClauseMessage_generic(a, clause) == MsgApiError(a)

ClauseMessage(a, clause) ==
    CASE clause = "ConnectionError" -> MsgConnect
      [] clause = "Timeout" -> MsgTimeout(a)
      [] OTHER -> MsgApiError(a)

(* The exception the try block of send_video_to_api ends with, "none" when *)
(* it returns: the one requests.post raised, or response.json() on a 200   *)
(* body that is not JSON.                                                  *)
SendRaises(resp) ==
    IF resp.exc # "none" THEN resp.exc
    ELSE IF resp.status = 200 /\ resp.json = "invalid" THEN "JSONDecodeError"
    ELSE "none"

(* A faulty variant: app_new returns None for a 200 body that is no JSON   *)
(* object.                                                                *)
send_video_to_api_objects_only(a, resp) ==
    IF SendRaises(resp) # "none" /\ ExceptClause(SendRaises(resp)) = "uncaught"
    THEN [ret |-> "raise", ui |-> <<>>]
    ELSE IF SendRaises(resp) # "none"
    THEN [ret |-> "None",
          ui |-> <<El("error", ClauseMessage(a, ExceptClause(SendRaises(resp))))>>]
    ELSE IF resp.status = 200
    THEN [ret |-> IF resp.json = "null" \/ (a = "app_new" /\ resp.json # "object")
                  THEN "None" ELSE resp.json,
          ui |-> <<>>]
    ELSE [ret |-> "None", ui |-> <<El("error", MsgServiceError(a, resp.status))>>]

(* send_video_to_api once requests.post has ended with resp: ret is "None", *)
(* the kind of JSON value returned, or "raise" when the exception is not    *)
(* caught; ui is the st.error it showed.                                    *)
send_video_to_api(a, resp) ==
    IF SendRaises(resp) # "none" /\ ExceptClause(SendRaises(resp)) = "uncaught"
    THEN [ret |-> "raise", ui |-> <<>>]
    ELSE IF SendRaises(resp) # "none"
    THEN [ret |-> "None",
          ui |-> <<El("error", ClauseMessage(a, ExceptClause(SendRaises(resp))))>>]
    ELSE IF resp.status = 200
    THEN [ret |-> IF resp.json = "null" THEN "None" ELSE resp.json, ui |-> <<>>]
    ELSE [ret |-> "None", ui |-> <<El("error", MsgServiceError(a, resp.status))>>]

(* send_video_to_api when video_file.getvalue() raises before the POST.    *)
send_unreadable(a) ==
    [ret |-> "None", ui |-> <<El("error", ClauseMessage(a, ExceptClause("OSError")))>>]

(* api_response.get('predictions', []) and len() of it: the length, or the *)
(* exception (a JSON value that is no object has no get; None and numbers  *)
(* have no len).                                                           *)
PredictionsLen(ret, resp) ==
    IF ret # "object" THEN Raise("AttributeError")
    ELSE IF resp.pkind = "missing" THEN Ok(0)
    ELSE IF resp.pkind \in {"null", "num"} THEN Raise("TypeError")
    ELSE Ok(Len(resp.items))

(* A faulty variant: >= 17 in place of == 17.                              *)
CountOk_atleast(len) == len >= EXPECTED_PREDICTIONS

(* A faulty variant: any non-empty predictions are accepted.               *)
CountOk_nonempty(len) == len > 0

(* if len(predictions) == 17                                               *)

CountOk(len) == len = EXPECTED_PREDICTIONS

(* except Exception as e, of main(): whether it catches e.                 *)
MainCatches(e) == "Exception" \in Bases(e)

(* A faulty variant: a value above the one that follows it.                *)
ProgressSent_high(a) == 95

(* Progress values of the two variants.                                    *)
ProgressSent(a) == IF a = "app_fixed" THEN 80 ELSE 75

(* The values progress_bar is given, in order, by a run of variant a that  *)
(* sends the uploaded file and shows results.                              *)
ProgressValues(a) ==
    IF a = "app_fixed" THEN <<0, 40, 60, 80, 90, 100>> ELSE <<0, 25, 75, 90, 100>>

(* A faulty variant: the list is sorted where it is                       *)
(* (predictions.sort(reverse=True)) and the table is written to the page.  *)
process_predictions_effects_inplace(predictions, kind) ==
    [predictions |->
        IF \A k \in 1..Len(predictions) : predictions[k].t = "num"
        THEN LET sorted == SortDesc([k \in 1..Len(predictions) |->
                                       Row("", predictions[k])], kind)
             IN [k \in 1..Len(predictions) |-> sorted[k]["Probability (%)"]]
        ELSE predictions,
     LABEL_MAP |-> label_map,
     page |-> <<El("dataframe", "df")>>]

(* What a call of process_predictions leaves of the objects it can reach   *)
(* besides its locals: the list it is given (enumerate only reads it, data *)
(* is a new list), the module's LABEL_MAP (dict.get inserts no key;        *)
(* DataFrame, sort_values and reset_index make new frames) and what it     *)
(* puts on the page (it calls no st function).                             *)
process_predictions_effects(predictions, kind) ==
    [predictions |-> predictions,
     LABEL_MAP |-> label_map,
     page |-> <<>>]

(* -------------------------------- main -------------------------------- *)

Init ==
    /\ app \in Programs
    /\ sortKind \in SortKinds
    /\ label_map = LABEL_MAP
    /\ script = NotRun
    /\ API_ENDPOINT \in {CONFIGURED_ENDPOINT, PLACEHOLDER_ENDPOINT}
    /\ pc = "idle"
    /\ runs = 0
    /\ uploaded_file = "None"
    /\ has_instagram_url = FALSE
    /\ video_to_process = "None"
    /\ temp_file_path = "None"
    /\ posts = 0
    /\ response = NoResponse
    /\ calls = 0
    /\ df = <<>>
    /\ ui = <<>>
    /\ results = <<>>
    /\ progress_bar = <<>>
    /\ progress_log = <<>>
    /\ status_text = ""
    /\ disk = NoDisk

(* What the script puts on the page before the click is handled: the URL   *)
(* field's error and the preview.                                          *)
Page(file, url) ==
    (IF url # NoUrl /\ ~is_valid_instagram_url(url)
     THEN <<El("error", MsgInvalidUrl)>> ELSE <<>>)
    \o (IF file # "None" THEN <<El("video", file)>>
        ELSE IF url # NoUrl /\ is_valid_instagram_url(url)
        THEN <<El("info", "Ready to analyze Instagram video")>>
        ELSE <<>>)

(* The run ends here: the page, the bar and the text it leaves.            *)
EndRun(page, d) ==
    /\ pc' = "done"
    /\ ui' = page
    /\ progress_bar' = <<>>
    /\ status_text' = ""
    /\ disk' = d

(* An exception leaves main() uncaught: the script stops where it is (the  *)
(* finally block has run).                                                 *)
Crash(d) ==
    /\ pc' = "crashed"
    /\ disk' = d
    /\ UNCHANGED <<ui, progress_bar, status_text>>

(* progress_bar.progress(v) for each v of values, in order.                *)
Progress(values) ==
    /\ progress_bar' = <<values[Len(values)]>>
    /\ progress_log' = progress_log \o values

(* A faulty variant: the ranked table and the results section are kept in *)
(* module-level state, which a click does not reset.                      *)
Click_stale(file, url) ==
    /\ app \in Apps
    /\ pc \in {"idle", "done", "crashed"}
    /\ runs < MaxRuns
    /\ app = "app_new" => url = NoUrl
    /\ LET hasIg == url # NoUrl /\ is_valid_instagram_url(url)
           ends == (file = "None" /\ ~hasIg) \/ API_ENDPOINT = PLACEHOLDER_ENDPOINT
       IN /\ runs' = runs + 1
          /\ uploaded_file' = file
          /\ has_instagram_url' = hasIg
          /\ temp_file_path' = "None"
          /\ response' = NoResponse
          /\ calls' = 0
          /\ UNCHANGED <<app, sortKind, label_map, script, API_ENDPOINT, df, results>>
          /\ pc' = IF ends THEN "done" ELSE IF hasIg THEN "downloading" ELSE "posting"
          /\ ui' = Page(file, url)
                     \o (IF file = "None" /\ ~hasIg THEN <<El("error", MsgNoInput(app))>>
                         ELSE IF ends THEN <<El("error", MsgUnavailable),
                                             El("info", MsgDeveloper)>>
                         ELSE <<>>)
          /\ progress_bar' = IF ends THEN <<>> ELSE IF hasIg THEN <<20>>
                             ELSE IF app = "app_fixed" THEN <<60>> ELSE <<25>>
          /\ progress_log' = IF ends THEN <<>> ELSE IF hasIg THEN <<0, 20>>
                             ELSE IF app = "app_fixed" THEN <<0, 40, 60>> ELSE <<0, 25>>
          /\ status_text' = IF ends THEN "" ELSE "Sending video for analysis..."
          /\ disk' = NoDisk
          /\ posts' = IF ends \/ hasIg THEN 0 ELSE 1
          /\ video_to_process' = IF ends \/ hasIg THEN "None" ELSE file

(* A click of "Analyze Video" with the uploader holding file and the URL   *)
(* field url (app_new has no URL field): the script reruns from the top,   *)
(* up to the first blocking call (the Instagram download or the POST).     *)
Click(file, url) ==
    /\ app \in Apps
    /\ pc \in {"idle", "done", "crashed"}
    /\ runs < MaxRuns
    /\ app = "app_new" => url = NoUrl
    /\ LET has_file_upload == file # "None"
           hasIg == url # NoUrl /\ is_valid_instagram_url(url)
       IN /\ runs' = runs + 1
          /\ uploaded_file' = file
          /\ has_instagram_url' = hasIg
          /\ temp_file_path' = "None"
          /\ response' = NoResponse
          /\ calls' = 0
          /\ df' = <<>>
          /\ results' = <<>>
          /\ UNCHANGED <<app, sortKind, label_map, script, API_ENDPOINT>>
          /\ IF ~has_file_upload /\ ~hasIg
             THEN /\ EndRun(Page(file, url) \o <<El("error", MsgNoInput(app))>>, NoDisk)
                  /\ progress_log' = <<>>
                  /\ posts' = 0
                  /\ video_to_process' = "None"
             ELSE IF API_ENDPOINT = PLACEHOLDER_ENDPOINT
             THEN /\ EndRun(Page(file, url) \o <<El("error", MsgUnavailable),
                                                 El("info", MsgDeveloper)>>, NoDisk)
                  /\ progress_log' = <<>>
                  /\ posts' = 0
                  /\ video_to_process' = "None"
             ELSE IF hasIg
             THEN /\ pc' = "downloading"
                  /\ ui' = Page(file, url)
                  /\ progress_bar' = <<20>>
                  /\ progress_log' = <<0, 20>>
                  /\ status_text' = "Downloading video from Instagram..."
                  /\ disk' = NoDisk
                  /\ posts' = 0
                  /\ video_to_process' = "None"
             ELSE /\ pc' = "posting"
                  /\ ui' = Page(file, url)
                  /\ progress_bar' = IF app = "app_fixed" THEN <<60>> ELSE <<25>>
                  /\ progress_log' = IF app = "app_fixed" THEN <<0, 40, 60>> ELSE <<0, 25>>
                  /\ status_text' = IF app = "app_fixed"
                                    THEN "Sending video for analysis..."
                                    ELSE "Uploading video to detection service..."
                  /\ disk' = NoDisk
                  /\ posts' = 1
                  /\ video_to_process' = file

(* A faulty variant: when the download failed, the uploaded file is sent   *)
(* in its place if there is one.                                           *)
DownloadReturn_fallback(outcome, ctorOk, readOk, removeOk) ==
    /\ pc = "downloading"
    /\ UNCHANGED <<app, sortKind, label_map, script, API_ENDPOINT, runs,
                   uploaded_file, has_instagram_url, response, calls, df,
                   results, ui>>
    /\ disk' = [dir |-> IF outcome = "mkdtemp_failed" THEN "absent" ELSE "present",
                file |-> IF outcome = "downloaded" THEN "present" ELSE "absent",
                removals |-> {}]
    /\ IF outcome = "downloaded" \/ uploaded_file # "None"
       THEN /\ pc' = "posting"
            /\ video_to_process' = IF outcome = "downloaded"
                                   THEN "instagram_video.mp4" ELSE uploaded_file
            /\ temp_file_path' = IF outcome = "downloaded"
                                 THEN DOWNLOADED_PATH ELSE "None"
            /\ Progress(<<40, 60>>)
            /\ status_text' = "Sending video for analysis..."
            /\ posts' = posts + 1
       ELSE /\ pc' = "done"
            /\ progress_bar' = <<>>
            /\ status_text' = ""
            /\ UNCHANGED <<video_to_process, temp_file_path, posts, progress_log>>

(* download_instagram_video returns.  outcome: mkdtemp raised, the download *)
(* raised, no instagram_video.* file was found, or the file was downloaded. *)
(* ctorOk: VideoFile(downloaded_path) does not raise (os.path.getsize);     *)
(* readOk: its getvalue() does not raise; removeOk: os.remove succeeds.     *)
DownloadReturn(outcome, ctorOk, readOk, removeOk) ==
    /\ pc = "downloading"
    /\ UNCHANGED <<app, sortKind, label_map, script, API_ENDPOINT, runs, uploaded_file,
                   has_instagram_url, response, calls, df, results>>
    /\ LET made == [dir |-> IF outcome = "mkdtemp_failed" THEN "absent" ELSE "present",
                    file |-> IF outcome = "downloaded" THEN "present" ELSE "absent",
                    removals |-> {}]
       IN IF outcome # "downloaded"
          THEN /\ EndRun(ui \o <<El("error", MsgDownloadFailed)>>,
                         Finally(made, "None", removeOk))
               /\ UNCHANGED <<video_to_process, temp_file_path, posts, progress_log>>
          ELSE IF ~ctorOk
          THEN /\ EndRun(ui \o ExceptUi(app), Finally(made, "None", removeOk))
               /\ UNCHANGED <<video_to_process, temp_file_path, posts, progress_log>>
          ELSE IF ~readOk
          THEN /\ EndRun(ui \o send_unreadable(app).ui \o <<El("error", MsgFailed)>>,
                         Finally(made, DOWNLOADED_PATH, removeOk))
               /\ progress_log' = progress_log \o <<40, 60, ProgressSent(app)>>
               /\ video_to_process' = "instagram_video.mp4"
               /\ temp_file_path' = DOWNLOADED_PATH
               /\ UNCHANGED posts
          ELSE /\ pc' = "posting"
               /\ video_to_process' = "instagram_video.mp4"
               /\ temp_file_path' = DOWNLOADED_PATH
               /\ Progress(<<40, 60>>)
               /\ status_text' = "Sending video for analysis..."
               /\ posts' = posts + 1
               /\ disk' = made
               /\ UNCHANGED ui

(* requests.post ended with resp: the rest of send_video_to_api, then main() *)
(* up to time.sleep(1) or to the end of the run.                            *)
HandleResponse(resp, removeOk) ==
    /\ pc = "posting"
    /\ UNCHANGED <<app, sortKind, script, API_ENDPOINT, runs, uploaded_file,
                   has_instagram_url, video_to_process, temp_file_path, posts,
                   results>>
    /\ LET sent == send_video_to_api(app, resp)
           len == PredictionsLen(sent.ret, resp)
           called == sent.ret = "object" /\ len.ok /\ CountOk(len.val)
           table == process_predictions(resp.items, sortKind)
           effects == process_predictions_effects(resp.items, sortKind)
           end == Finally(disk, temp_file_path, removeOk)
       IN /\ response' = IF called THEN [resp EXCEPT !.items = effects.predictions]
                         ELSE resp
          /\ label_map' = IF called THEN effects.LABEL_MAP ELSE label_map
          /\ IF sent.ret = "raise"
             THEN /\ IF MainCatches(SendRaises(resp))
                     THEN EndRun(ui \o ExceptUi(app), end)
                     ELSE Crash(end)
                  /\ UNCHANGED <<calls, df, progress_log>>
             ELSE IF sent.ret = "None"
             THEN /\ EndRun(ui \o sent.ui \o <<El("error", MsgFailed)>>, end)
                  /\ progress_log' = progress_log \o <<ProgressSent(app)>>
                  /\ UNCHANGED <<calls, df>>
             ELSE IF ~len.ok
             THEN /\ IF MainCatches(len.exc)
                     THEN EndRun(ui \o ExceptUi(app), end)
                     ELSE Crash(end)
                  /\ progress_log' = progress_log \o <<ProgressSent(app), 90>>
                  /\ UNCHANGED <<calls, df>>
             ELSE IF ~CountOk(len.val)
             THEN /\ EndRun(ui \o <<El("error", MsgInvalid(len.val))>>
                               \o (IF app = "app_new"
                                   THEN <<El("checkbox", "Show debug information (developers only)")>>
                                   ELSE <<>>), end)
                  /\ progress_log' = progress_log \o <<ProgressSent(app), 90>>
                  /\ UNCHANGED <<calls, df>>
             ELSE IF ~table.ok
             THEN /\ IF MainCatches(table.exc)
                     THEN EndRun(ui \o effects.page \o ExceptUi(app), end)
                     ELSE Crash(end)
                  /\ progress_log' = progress_log \o <<ProgressSent(app), 90>>
                  /\ calls' = calls + 1
                  /\ UNCHANGED df
             ELSE /\ pc' = "sleeping"
                  /\ calls' = calls + 1
                  /\ df' = <<table.val>>
                  /\ Progress(<<ProgressSent(app), 90, 100>>)
                  /\ status_text' = "Analysis complete!"
                  /\ ui' = ui \o effects.page
                  /\ UNCHANGED disk

(* A faulty variant: the POST is issued again when it failed.              *)
PostReturn_retry(resp, removeOk) ==
    IF pc = "posting" /\ send_video_to_api(app, resp).ret = "None" /\ posts < 2
    THEN /\ posts' = posts + 1
         /\ UNCHANGED <<app, sortKind, label_map, script, API_ENDPOINT, pc, runs, uploaded_file,
                        has_instagram_url, video_to_process, temp_file_path,
                        response, calls, df, ui, results, progress_bar,
                        progress_log, status_text, disk>>
    ELSE HandleResponse(resp, removeOk)

(* A faulty variant: the POST is issued again for as long as it fails.     *)
PostReturn_forever(resp, removeOk) ==
    IF pc = "posting" /\ send_video_to_api(app, resp).ret = "None"
    THEN /\ response' = resp
         /\ UNCHANGED <<app, sortKind, label_map, script, API_ENDPOINT, pc, runs, uploaded_file,
                        has_instagram_url, video_to_process, temp_file_path,
                        posts, calls, df, ui, results, progress_bar,
                        progress_log, status_text, disk>>
    ELSE HandleResponse(resp, removeOk)

(* requests.post has ended: send_video_to_api makes no second attempt.     *)
PostReturn(resp, removeOk) == HandleResponse(resp, removeOk)

(* time.sleep(1) returns: the indicators are cleared and the results        *)
(* section is rendered; the run ends.                                       *)
AfterSleep(removeOk) ==
    /\ pc = "sleeping"
    /\ UNCHANGED <<app, sortKind, label_map, script, API_ENDPOINT, runs, uploaded_file,
                   has_instagram_url, video_to_process, temp_file_path, posts,
                   response, calls, df, progress_log>>
    /\ LET shown == RenderResults(app, df[1], has_instagram_url, uploaded_file)
       IN /\ EndRun(ui \o shown.ui, Finally(disk, temp_file_path, removeOk))
          /\ results' = shown.results

(* ----------------------------- test_api.py ---------------------------- *)

AppVars == <<app, sortKind, label_map, API_ENDPOINT, pc, runs, uploaded_file,
             has_instagram_url, video_to_process, temp_file_path, posts,
             response, calls, df, ui, results, progress_bar, progress_log,
             status_text, disk>>

(* What the test script is given at its prompt, and what its GET ends with. *)
TestPaths == {"", "missing.mp4", "clip.mp4"}
GetOutcomes == {"response", "ConnectionError", "Timeout"}

(* What the POST of the test script ends with.                             *)
TestResponses ==
    { r \in Responses :
        \/ r.pkind # "list"
        \/ \A k \in 1..Len(r.items) : r.items[k] = Num(0) }

(* A faulty variant: the endpoint is looked at after the connection test.  *)
TestMain_late ==
    /\ app = "test_api"
    /\ script.pc = "start"
    /\ script' = [script EXCEPT !.pc = "connecting", !.requests = <<"GET /">>]
    /\ UNCHANGED AppVars

(* The __main__ block up to its first blocking call: with the placeholder  *)
(* endpoint it prints and exits with status 1, else test_api_connection()  *)
(* issues its GET.                                                         *)
TestMain ==
    /\ app = "test_api"
    /\ script.pc = "start"
    /\ IF API_ENDPOINT = PLACEHOLDER_ENDPOINT
       THEN script' = [script EXCEPT !.pc = "exited",
                          !.out = <<"API endpoint not configured!">>,
                          !.status = <<1>>]
       ELSE script' = [script EXCEPT !.pc = "connecting", !.requests = <<"GET /">>]
    /\ UNCHANGED AppVars

(* requests.get returns or raises; test_api_connection prints and the      *)
(* script asks for a file.                                                 *)
TestConnected(outcome) ==
    /\ app = "test_api"
    /\ script.pc = "connecting"
    /\ script' = [script EXCEPT
          !.pc = "asking",
          !.out = @ \o <<CASE outcome = "response" -> "API is reachable"
                           [] outcome = "ConnectionError" -> "Could not connect"
                           [] OTHER -> "Error">>]
    /\ UNCHANGED AppVars

(* input() returns path: nothing to test, a file that cannot be opened, or *)
(* the POST of the file to {API_ENDPOINT}/detect.                          *)
TestInput(path) ==
    /\ app = "test_api"
    /\ script.pc = "asking"
    /\ script' =
          IF path = ""
          THEN [script EXCEPT !.pc = "completed", !.status = <<0>>,
                   !.out = @ \o <<"Skipping endpoint test", "Test completed!">>]
          ELSE IF path = "missing.mp4"
          THEN [script EXCEPT !.pc = "completed", !.status = <<0>>,
                   !.out = @ \o <<"Test file not found", "Test completed!">>]
          ELSE [script EXCEPT !.pc = "detecting",
                   !.requests = @ \o <<"POST /detect">>]
    /\ UNCHANGED AppVars

(* What test_detect_endpoint prints once requests.post has ended with resp. *)
TestReport(resp) ==
    LET len == PredictionsLen(resp.json, resp)
    IN IF SendRaises(resp) # "none" THEN <<"Error testing detect endpoint">>
       ELSE IF resp.status # 200 THEN <<"API returned status code", "Response">>
       ELSE IF resp.json # "object" THEN <<"Error testing detect endpoint">>
       ELSE IF ~len.ok
       THEN <<"/detect endpoint working!", "Response", "Error testing detect endpoint">>
       ELSE IF len.val = EXPECTED_PREDICTIONS
       THEN <<"/detect endpoint working!", "Response", "Number of predictions",
              "Correct number of predictions received">>
       ELSE <<"/detect endpoint working!", "Response", "Number of predictions",
              "Expected 17 predictions, got " \o ToString(len.val)>>

(* requests.post has ended: the report, and the script completes.          *)
TestDetected(resp) ==
    /\ app = "test_api"
    /\ script.pc = "detecting"
    /\ script' = [script EXCEPT !.pc = "completed", !.status = <<0>>,
                     !.out = @ \o TestReport(resp) \o <<"Test completed!">>]
    /\ UNCHANGED AppVars

(* Whether os.remove succeeds matters only to a run that downloaded.      *)
RemoveOutcomes == IF has_instagram_url THEN BOOLEAN ELSE {TRUE}

Next ==
    \/ \E file \in UploadedFiles, url \in Urls : Click(file, url)
    \/ \E outcome \in {"mkdtemp_failed", "download_failed", "no_file", "downloaded"},
          ctorOk \in BOOLEAN, readOk \in BOOLEAN, removeOk \in RemoveOutcomes :
          DownloadReturn(outcome, ctorOk, readOk, removeOk)
    \/ \E resp \in Responses, removeOk \in RemoveOutcomes : PostReturn(resp, removeOk)
    \/ \E removeOk \in RemoveOutcomes : AfterSleep(removeOk)
    \/ TestMain
    \/ \E outcome \in GetOutcomes : TestConnected(outcome)
    \/ \E path \in TestPaths : TestInput(path)
    \/ \E resp \in TestResponses : TestDetected(resp)

Spec == Init /\ [][Next]_vars

(* A blocking call of the run in progress returns: the Instagram download, *)
(* requests.post (a response, or an exception once timeout=API_TIMEOUT has *)
(* expired) or time.sleep(1).                                              *)
BlockingCallReturns ==
    \/ \E outcome \in {"mkdtemp_failed", "download_failed", "no_file", "downloaded"},
          ctorOk \in BOOLEAN, readOk \in BOOLEAN, removeOk \in RemoveOutcomes :
          DownloadReturn(outcome, ctorOk, readOk, removeOk)
    \/ \E resp \in Responses, removeOk \in RemoveOutcomes : PostReturn(resp, removeOk)
    \/ \E removeOk \in RemoveOutcomes : AfterSleep(removeOk)

(* The script is single-threaded and every call it blocks on returns; the  *)
(* user is free never to click again.                                      *)
FairSpec == Spec /\ WF_vars(BlockingCallReturns)

(* ------------------------------ properties ---------------------------- *)

Rows == df[1].rows

InUi(e) == \E k \in 1..Len(ui) : ui[k] = e

Alerts == {El("error", AlertHigh), El("warning", AlertMedium), El("success", AlertLow)}

(* The elements of the results section: header, alert, top classification, *)
(* table, chart, summary and the CSV button.                               *)
ResultsElements ==
    ({El("markdown", HEADER), El("download_button", "Download Results as CSV")}
     \cup Alerts
     \cup {SectionBody(El("error", AlertHigh))[k] : k \in 2..11})
    \ {El("markdown", "---")}

ShowsResults == \E k \in 1..Len(ui) : ui[k] \in ResultsElements

AllNumbers(items) == \A k \in 1..Len(items) : items[k].t = "num"

BagOf(seq) ==
    [x \in {seq[k] : k \in 1..Len(seq)} |->
        Cardinality({k \in 1..Len(seq) : seq[k] = x})]

(* The pairs (LABEL_MAP[i], predictions[i] * 100), i = 0..16.               *)
InputPairs(items) ==
    [k \in 1..Len(items) |-> Row(LABEL_MAP[k - 1], Num(items[k].v * 100))]

(* C1: for a list of exactly 17 numbers, the table process_predictions     *)
(* returns has 17 rows, is a permutation of the pairs (LABEL_MAP[i],       *)
(* predictions[i] * 100), and each row's percentage is >= the next row's.  *)
C1_RankedPermutation ==
    (df # <<>> /\ response.pkind = "list" /\ AllNumbers(response.items)) =>
        /\ Len(response.items) = 17
        /\ Len(Rows) = 17
        /\ BagOf(Rows) = BagOf(InputPairs(response.items))
        /\ \A k \in 1..16 :
              Rows[k]["Probability (%)"].v >= Rows[k + 1]["Probability (%)"].v

(* A ranking that had to reorder its input and to place equal values.      *)
C1_Witness ==
    /\ df # <<>>
    /\ response.pkind = "list" /\ AllNumbers(response.items)
    /\ response.items[1].v < response.items[17].v
    /\ response.items[2].v = response.items[3].v
    /\ Rows[1]["Label Name"] = "VIDU"

(* The percentage of a prediction, in hundredths (JSON true is 1).          *)
PercentOf(x) == IF x.t = "bool" THEN x.v * 100 * 100 ELSE x.v * 100

MaxPercent(items) ==
    CHOOSE m \in {PercentOf(items[k]) : k \in 1..Len(items)} :
        \A k \in 1..Len(items) : PercentOf(items[k]) <= m

AlertsShown == SelectSeq(ui, LAMBDA e : e \in Alerts)

(* C2: a successful analysis shows exactly one alert, chosen by the        *)
(* maximum percentage p alone: st.error when p > 70, st.warning when       *)
(* 40 < p <= 70, st.success when p <= 40.                                  *)
C2_AlertTier ==
    results # <<>> =>
        LET p == MaxPercent(response.items)
        IN /\ Len(AlertsShown) = 1
           /\ AlertsShown[1] =
                 IF p > 70 * 100 THEN El("error", AlertHigh)
                 ELSE IF p > 40 * 100 THEN El("warning", AlertMedium)
                 ELSE El("success", AlertLow)
           /\ results[1].alert = AlertsShown[1].w

(* The boundary p = 70 exactly gives the medium alert.                     *)
C2_Witness ==
    /\ results # <<>>
    /\ MaxPercent(response.items) = 70 * 100
    /\ InUi(El("warning", AlertMedium))

(* A 200 response that is a JSON object whose predictions have a length.   *)
HasLength(resp) ==
    /\ resp.exc = "none" /\ resp.status = 200 /\ resp.json = "object"
    /\ resp.pkind \in {"missing", "str", "dict", "list"}

(* C3: a 200 response whose predictions have a length other than 17 (a     *)
(* missing field counts 0) is reported as 'Invalid service response';      *)
(* process_predictions is not called, no table is made and nothing of the  *)
(* results section is shown, whatever the values are.                      *)
C3_WrongCountRejected ==
    (HasLength(response) /\ Len(response.items) # 17) =>
        /\ pc = "done"
        /\ InUi(El("error", MsgInvalid(Len(response.items))))
        /\ calls = 0
        /\ df = <<>>
        /\ results = <<>>
        /\ ~ShowsResults

(* 18 predictions, each of which alone would raise the high alert.          *)
C3_Witness ==
    /\ pc = "done"
    /\ HasLength(response) /\ response.pkind = "list"
    /\ Len(response.items) = 18
    /\ response.items[1] = Num(71)
    /\ InUi(El("error", MsgInvalid(18)))

(* The three simulated failures of the upload call.                        *)
SimulatedFailure(resp) ==
    CASE resp.exc = "ConnectionError" -> "connection"
      [] resp.exc \in {"Timeout", "ReadTimeout"} -> "timeout"
      [] resp.exc = "none" /\ resp.status = 500 -> "http500"
      [] OTHER -> "none"

FailureMessage(a, kind) ==
    CASE kind = "connection" -> MsgConnect
      [] kind = "timeout" -> MsgTimeout(a)
      [] OTHER -> MsgServiceError(a, 500)

(* C4: a connection failure, a timeout and an HTTP 500 each end the run    *)
(* without an uncaught exception, each with its own message and not the    *)
(* message of the other two; nothing of the results section is shown and   *)
(* the progress bar and the status text are cleared.                       *)
C4_FailuresDistinct ==
    SimulatedFailure(response) # "none" =>
        /\ pc = "done"
        /\ \A kind \in {"connection", "timeout", "http500"} :
              InUi(El("error", FailureMessage(app, kind)))
                  <=> kind = SimulatedFailure(response)
        /\ ~ShowsResults
        /\ results = <<>>
        /\ progress_bar = <<>>
        /\ status_text = ""

C4_Witness ==
    /\ pc = "done"
    /\ response.exc = "ReadTimeout"
    /\ InUi(El("error", MsgTimeout(app)))
    /\ ~InUi(El("error", MsgConnect))

(* The st.error of send_video_to_api's three except clauses.               *)
SendMessages(a) ==
    {El("error", MsgConnect), El("error", MsgTimeout(a)), El("error", MsgApiError(a))}

SendMessagesShown == SelectSeq(ui, LAMBDA e : e \in SendMessages(app))

(* The upload call failed with an exception: requests.post raised, the     *)
(* 200 body was not JSON, or the downloaded file could not be read.        *)
Unreadable ==
    pc = "done" /\ temp_file_path # "None" /\ posts = 0
UploadRaised ==
    response.exc # "none"
    \/ (response.status = 200 /\ response.json = "invalid")
    \/ Unreadable

RaisedBases ==
    IF response.exc # "none" THEN Bases(response.exc)
    ELSE IF Unreadable THEN Bases("OSError")
    ELSE Bases("JSONDecodeError")

(* The upload call returned None and was not repeated.                     *)
ReturnedNoneOnce ==
    /\ pc = "done"
    /\ Len(SendMessagesShown) = 1
    /\ InUi(El("error", MsgFailed))
    /\ posts <= 1
    /\ df = <<>> /\ results = <<>>

(* C5 as stated: every connection failure yields 'Could not connect',      *)
(* every timeout (connect timeout as well as read timeout) yields 'Request *)
(* timed out', every other exception the generic message; each returns     *)
(* None without a recovery attempt.                                        *)
C5_AsStated ==
    UploadRaised =>
        /\ ReturnedNoneOnce
        /\ "ConnectionError" \in RaisedBases => InUi(El("error", MsgConnect))
        /\ "Timeout" \in RaisedBases => InUi(El("error", MsgTimeout(app)))
        /\ RaisedBases \cap {"ConnectionError", "Timeout"} = {}
              => InUi(El("error", MsgApiError(app)))

(* C5, amended: every connection failure, a connect timeout included,      *)
(* yields 'Could not connect'; every timeout that is not a connection      *)
(* failure (a read timeout) yields 'Request timed out'; every other        *)
(* exception, a body that is not JSON included, yields the generic         *)
(* message; exactly one of the three is shown, send_video_to_api returns   *)
(* None and the POST is not repeated.                                      *)
C5_Classification ==
    UploadRaised =>
        /\ ReturnedNoneOnce
        /\ SendMessagesShown[1] =
              IF "ConnectionError" \in RaisedBases THEN El("error", MsgConnect)
              ELSE IF "Timeout" \in RaisedBases THEN El("error", MsgTimeout(app))
              ELSE El("error", MsgApiError(app))

(* A connect timeout, shown as a connection failure.                       *)
C5_Witness ==
    /\ pc = "done"
    /\ response.exc = "ConnectTimeout"
    /\ posts = 1
    /\ InUi(El("error", MsgConnect))
    /\ ~InUi(El("error", MsgTimeout(app)))

(* C6: within one click at most one POST is issued; a POST is issued only  *)
(* while none of this run has been issued or answered, so after a failed   *)
(* POST the next one needs a new click.                                    *)
C6_SinglePost ==
    [][ /\ posts' <= 1
        /\ posts' > posts => (posts = 0 /\ response' = NoResponse)
        /\ runs' = runs => posts' >= posts
        /\ (posts' # posts /\ response # NoResponse) => runs' = runs + 1 ]_vars

(* A second click's POST that failed, after a first run.                   *)
C6_Witness ==
    /\ runs = 2
    /\ pc = "done"
    /\ posts = 1
    /\ response.exc = "none" /\ response.status = 500
    /\ InUi(El("error", MsgFailed))

(* C7: when a run on the Instagram path has ended, a removal has been      *)
(* attempted on every temporary directory and file it created.             *)
C7_TempFilesRemoved ==
    (pc \in {"done", "crashed"} /\ has_instagram_url) =>
        /\ disk.dir # "absent" => "dir" \in disk.removals
        /\ disk.file # "absent" => "file" \in disk.removals

(* A 200 response whose body is malformed: not JSON, not an object, or an  *)
(* object whose predictions are not a list of 17 numbers.                  *)
Malformed(resp) ==
    /\ resp.exc = "none" /\ resp.status = 200
    /\ \/ resp.json # "object"
       \/ resp.pkind # "list"
       \/ Len(resp.items) # 17
       \/ ~AllNumbers(resp.items)

ErrorShown ==
    \E k \in 1..Len(ui) : ui[k].w = "error" /\ ui[k] # El("error", MsgInvalidUrl)

(* C8: a 200 response with a malformed body ends the run with an error     *)
(* message and nothing of the results section is shown.                    *)
C8_MalformedIsFailure ==
    Malformed(response) =>
        /\ pc # "crashed"
        /\ pc = "done" => ErrorShown
        /\ ~ShowsResults

(* C9: the CSV of a successful analysis has the header 'Label Name',       *)
(* 'Probability (%)' and then exactly 17 lines, one per category, in the   *)
(* order of the ranked table, the percentage never increasing.             *)
C9_CsvExport ==
    results # <<>> =>
        LET csv == results[1].csv
        IN /\ csv.header = <<"Label Name", "Probability (%)">>
           /\ Len(csv.lines) = 17
           /\ \A k \in 1..17 :
                 /\ Len(csv.lines[k]) = 2 + 1
                 /\ csv.lines[k][1] = Rows[k]["Label Name"]
                 /\ csv.lines[k][2] * 100 + csv.lines[k][3]
                       = Rows[k]["Probability (%)"].v
           /\ \A k \in 1..16 :
                 csv.lines[k][2] * 100 + csv.lines[k][3]
                     >= csv.lines[k + 1][2] * 100 + csv.lines[k + 1][3]
           /\ {csv.lines[k][1] : k \in 1..17} = {LABEL_MAP[i] : i \in 0..16}

(* A CSV whose first and last lines differ in percentage.                  *)
C9_Witness ==
    /\ results # <<>>
    /\ results[1].csv.lines[1][2] = 71
    /\ results[1].csv.lines[17][2] = 0
    /\ results[1].csv.lines[1][1] = "SORA"

(* C10: LABEL_MAP maps each index 0..16 to a name, no two to the same      *)
(* (0 to AI_GEN, 12 to SORA), so the ranked table of a 17-length input     *)
(* holds each of the 17 names exactly once and no UNKNOWN_k label.         *)
C10_LabelsOnce ==
    /\ DOMAIN LABEL_MAP = 0..16
    /\ \A i, j \in 0..16 : LABEL_MAP[i] = LABEL_MAP[j] => i = j
    /\ LABEL_MAP[0] = "AI_GEN" /\ LABEL_MAP[12] = "SORA"
    /\ df # <<>> =>
          /\ Len(Rows) = 17
          /\ \A i \in 0..16 :
                Cardinality({k \in 1..17 : Rows[k]["Label Name"] = LABEL_MAP[i]}) = 1
          /\ \A k \in 1..17 :
                Rows[k]["Label Name"] \in {LABEL_MAP[i] : i \in 0..16}

(* A table with the last index's name at the top and the first's below.    *)
C10_Witness ==
    /\ df # <<>>
    /\ response.pkind = "list"
    /\ response.items[17] = Num(71)
    /\ Rows[1]["Label Name"] = "VIDU"
    /\ Rows[2]["Label Name"] = "AI_GEN"

(* A run is in progress: main() is inside a blocking call.                 *)
Running == pc \in {"downloading", "posting", "sleeping"}

(* The whole results section is on the page.                               *)
ResultsDisplayed == results # <<>>

(* An error message of the run is on the page (the high alert, which is    *)
(* an st.error too, and the URL field's error are none).                   *)
FailureShown ==
    \E k \in 1..Len(ui) :
        /\ ui[k].w = "error"
        /\ ui[k] \notin Alerts
        /\ ui[k] # El("error", MsgInvalidUrl)

(* The blocking calls a run at pc has still to make, at most.              *)
CallsLeft(at) ==
    CASE at = "downloading" -> 3
      [] at = "posting" -> 2
      [] at = "sleeping" -> 1
      [] OTHER -> 0

(* C11: every run terminates: no step loops or retries (each step of a run *)
(* of main() leaves fewer blocking calls to make), no run stops on an      *)
(* uncaught exception, a run in progress eventually ends, and a run that   *)
(* has ended shows exactly one of the results and an error message.        *)
C11_RunTerminates ==
    /\ [][(runs' = runs /\ script' = script) => CallsLeft(pc') < CallsLeft(pc)]_vars
    /\ [](pc # "crashed")
    /\ []((pc = "done") => (ResultsDisplayed # FailureShown))
    /\ (Running ~> (pc = "done"))

(* A second run that ended on a read timeout after API_TIMEOUT.            *)
C11_Witness ==
    /\ runs = 2
    /\ pc = "done"
    /\ posts = 1
    /\ response.exc = "ReadTimeout"
    /\ FailureShown /\ ~ResultsDisplayed

(* The ranked table a run with no earlier run computes from the response   *)
(* resp of its POST: <<>> when the run fails before the table is made.     *)
FreshTable(a, kind, resp) ==
    LET sent == send_video_to_api(a, resp)
        len == PredictionsLen(sent.ret, resp)
    IN IF sent.ret # "object" \/ ~len.ok THEN <<>>
       ELSE IF ~CountOk(len.val) \/ ~process_predictions(resp.items, kind).ok THEN <<>>
       ELSE <<process_predictions(resp.items, kind).val>>

(* C12: no state is carried from one run to the next: whatever runs came   *)
(* before, the ranked table, the alert tier and the CSV rows of a run are  *)
(* those a first run computes from the same input and the same response,   *)
(* and a run that makes no table shows none (no earlier one is reused).    *)
C12_NoStateCarried ==
    /\ Running /\ pc # "sleeping" => df = <<>> /\ results = <<>> /\ ~ShowsResults
    /\ pc \in {"sleeping", "done"} => df = FreshTable(app, sortKind, response)
    /\ pc = "sleeping" => results = <<>> /\ ~ShowsResults
    /\ pc = "done" =>
          /\ results =
                (IF df = <<>> THEN <<>>
                 ELSE RenderResults(app, df[1], has_instagram_url, uploaded_file).results)
          /\ df = <<>> => ~ShowsResults
          /\ results # <<>> =>
                /\ results[1].alert = AlertOf(Rows[1]["Probability (%)"]).w
                /\ results[1].csv = to_csv(FreshTable(app, sortKind, response)[1])
                /\ Cardinality({k \in 1..Len(ui) : ui[k] \in Alerts}) = 1

(* A second run that failed (HTTP 500) and shows no table.                 *)
C12_Witness ==
    /\ runs = 2
    /\ pc = "done"
    /\ response.exc = "none" /\ response.status = 500
    /\ df = <<>> /\ results = <<>>
    /\ ~ShowsResults

(* The other application variant.                                          *)
Other(a) == IF a = "app_fixed" THEN "app_new" ELSE "app_fixed"

(* A run on the upload-only input: the URL field is empty.                 *)
UploadOnly ==
    /\ runs > 0
    /\ ~has_instagram_url
    /\ ~InUi(El("error", MsgInvalidUrl))

IsPrefix(s, t) == Len(s) <= Len(t) /\ s = SubSeq(t, 1, Len(s))

(* What the results section shows, but for the download's file name.       *)
Shown(r) ==
    IF r = <<>> THEN <<>>
    ELSE <<[alert |-> r[1].alert, top |-> r[1].top, display_df |-> r[1].display_df,
            chart |-> r[1].chart, metrics |-> r[1].metrics, csv |-> r[1].csv]>>

(* On the upload-only input the run of one variant issues the POST, decides *)
(* between results and failure and shows the table, alert and CSV as the    *)
(* other variant does on the same file and service outcome.                 *)
VariantsAgree ==
    LET o == Other(app)
        table == FreshTable(o, sortKind, response)
    IN /\ posts = (IF uploaded_file # "None" /\ API_ENDPOINT # PLACEHOLDER_ENDPOINT
                   THEN 1 ELSE 0)
       /\ posts = 1 => video_to_process = uploaded_file
       /\ pc \in {"sleeping", "done"} => df = table
       /\ pc = "done" =>
             /\ Shown(results) =
                   (IF table = <<>> THEN <<>>
                    ELSE Shown(RenderResults(o, table[1], FALSE, uploaded_file).results))
             /\ ShowsResults <=> table # <<>>
             /\ ~ResultsDisplayed <=> FailureShown
             /\ InUi(El("error", MsgFailed))
                   <=> (posts = 1 /\ send_video_to_api(o, response).ret = "None")
             /\ InUi(El("error", MsgUnexpected))
                   <=> \/ posts = 1 /\ send_video_to_api(o, response).ret = "raise"
                       \/ posts = 1 /\ send_video_to_api(o, response).ret # "None"
                            /\ ~ResultsDisplayed
                            /\ ~InUi(El("error", MsgInvalid(Len(response.items))))
             /\ InUi(El("error", MsgNoInput(app))) <=> uploaded_file = "None"

(* C13 as stated: on the upload-only input the variants behave the same    *)
(* and differ only in wording, the debug checkboxes and the file name: so  *)
(* the progress bar of one takes the values the other's takes.             *)
C13_AsStated ==
    UploadOnly =>
        /\ VariantsAgree
        /\ IsPrefix(progress_log, ProgressValues(Other(app)))

(* C13: on the upload-only input the variants issue the same single POST,  *)
(* take the same decision and show the same table, alert and CSV; besides  *)
(* wording, checkboxes and file name they differ in the progress values.   *)
C13_VariantsAgree ==
    UploadOnly =>
        /\ VariantsAgree
        /\ IsPrefix(progress_log, ProgressValues(app))
        /\ results # <<>> =>
              results[1].file_name = FileName(app, FALSE, uploaded_file).val
        /\ \A k \in 1..Len(ui) : ui[k].w = "checkbox" => app = "app_new"

(* app_new has shown the results of an uploaded file.                      *)
C13_Witness ==
    /\ app = "app_new"
    /\ UploadOnly
    /\ pc = "done"
    /\ results # <<>>
    /\ results[1].file_name = "detection_results_clip.mp4_<time>.csv"
    /\ progress_log = <<0, 25, 75, 90, 100>>

(* What the page shows before the click is handled.                        *)
Preview(e) ==
    \/ e.w = "video"
    \/ e = El("info", "Ready to analyze Instagram video")
    \/ e = El("error", MsgInvalidUrl)

C15_ResultsNeedValidResponse ==
    ShowsResults =>
        /\ posts = 1
        /\ response.exc = "none"
        /\ response.status = 200
        /\ response.json = "object"
        /\ response.pkind \in {"list", "str", "dict"}
        /\ Len(response.items) = 17

(* Only the results header is shown: the predictions were a string of 17   *)
(* characters.                                                             *)
C15_Witness ==
    /\ pc = "done"
    /\ ShowsResults
    /\ ~ResultsDisplayed
    /\ response.pkind = "str"
    /\ InUi(El("markdown", HEADER))

InstagramReady == El("info", "Ready to analyze Instagram video")

(* C16: in app_fixed the video sent is the Instagram download whenever a   *)
(* valid Instagram URL is present (the uploaded file is then not sent) and *)
(* the uploaded file otherwise; and the video sent is the source the page  *)
(* showed before the click: the preview of the uploaded file, or the       *)
(* Instagram video as ready.                                               *)
C16_SentIsPreviewed ==
    (app = "app_fixed" /\ posts = 1) =>
        /\ has_instagram_url =>
              video_to_process = "instagram_video.mp4" /\ temp_file_path = DOWNLOADED_PATH
        /\ ~has_instagram_url =>
              video_to_process = uploaded_file /\ uploaded_file # "None"
        /\ IF video_to_process = uploaded_file
           THEN InUi(El("video", uploaded_file)) /\ ~InUi(InstagramReady)
           ELSE InUi(InstagramReady) /\ ~InUi(El("video", uploaded_file))

(* The click found nothing to analyze, or no configured endpoint.          *)
NoInput == uploaded_file = "None" /\ ~has_instagram_url
Unconfigured == API_ENDPOINT = PLACEHOLDER_ENDPOINT

(* What the run itself has put on the page, after the preview.             *)
RunElements == SelectSeq(ui, LAMBDA e : ~Preview(e))

(* C17: a click with neither an uploaded file nor a valid Instagram URL,   *)
(* or with the placeholder endpoint, issues no download and no POST and    *)
(* shows only its error message (with the developer's hint, for the        *)
(* placeholder); the test script with the placeholder endpoint exits with  *)
(* status 1 and has issued no request.                                     *)
C17_NothingSentWithoutInput ==
    /\ (runs > 0 /\ (NoInput \/ Unconfigured)) =>
          /\ pc = "done"
          /\ posts = 0 /\ response = NoResponse /\ video_to_process = "None"
          /\ disk = NoDisk /\ temp_file_path = "None"
          /\ progress_log = <<>> /\ progress_bar = <<>>
          /\ df = <<>> /\ results = <<>>
          /\ RunElements =
                (IF NoInput THEN <<El("error", MsgNoInput(app))>>
                 ELSE <<El("error", MsgUnavailable), El("info", MsgDeveloper)>>)
    /\ (app = "test_api" /\ Unconfigured /\ script.pc # "start") =>
          /\ script.pc = "exited"
          /\ script.status = <<1>>
          /\ script.requests = <<>>
    /\ script.requests # <<>> => ~Unconfigured

(* A click with a file and a valid URL, the endpoint being the placeholder. *)
C17_Witness ==
    /\ runs = 1
    /\ Unconfigured
    /\ uploaded_file = "clip.mp4" /\ has_instagram_url
    /\ pc = "done"
    /\ InUi(El("error", MsgUnavailable))

(* The run took the Instagram path and download_instagram_video has        *)
(* returned None: no instagram_video file was made.                        *)
DownloadFailed ==
    /\ has_instagram_url
    /\ ~Unconfigured
    /\ pc \notin {"idle", "downloading"}
    /\ disk.file = "absent"

(* C18: in app_fixed, when the Instagram download has failed the run has   *)
(* ended with the 'Failed to download Instagram video' message alone: no   *)
(* POST was issued, send_video_to_api was not called, and an uploaded file *)
(* was not sent in its place.                                              *)
C18_DownloadFailureEndsRun ==
    /\ DownloadFailed =>
          /\ app = "app_fixed"
          /\ pc = "done"
          /\ RunElements = <<El("error", MsgDownloadFailed)>>
          /\ posts = 0 /\ response = NoResponse
          /\ video_to_process = "None"
          /\ calls = 0 /\ df = <<>> /\ results = <<>>
          /\ progress_log = <<0, 20>>
          /\ progress_bar = <<>> /\ status_text = ""
    /\ InUi(El("error", MsgDownloadFailed)) => DownloadFailed

(* The download of a run that also had an uploaded file failed after the   *)
(* temporary directory was made.                                           *)
C18_Witness ==
    /\ DownloadFailed
    /\ uploaded_file = "clip.mp4"
    /\ disk.dir = "present"
    /\ InUi(El("video", "clip.mp4"))
    /\ InUi(El("error", MsgDownloadFailed))

Increasing(s) == \A k \in 1..(Len(s) - 1) : s[k] < s[k + 1]

(* The values the claim lists: 0, then 20 and 40 or 40, then 60, 80, 90    *)
(* and 100.                                                                *)
ListedValues ==
    IF has_instagram_url THEN <<0, 20, 40, 60, 80, 90, 100>>
    ELSE <<0, 40, 60, 80, 90, 100>>

(* The progress bar of a run: its values only increase, it shows the last  *)
(* one given, 100 is given only for a response with 17 predictions, and    *)
(* when the run has ended the bar and the status text are cleared.         *)
ProgressBehaves ==
    /\ Increasing(progress_log)
    /\ progress_bar # <<>> =>
          progress_log # <<>> /\ progress_bar[1] = progress_log[Len(progress_log)]
    /\ (\E k \in 1..Len(progress_log) : progress_log[k] = 100) =>
          /\ posts = 1 /\ calls = 1
          /\ response.status = 200 /\ response.json = "object"
          /\ Len(response.items) = 17
    /\ pc = "sleeping" => progress_bar = <<100>> /\ status_text = "Analysis complete!"
    /\ pc = "done" => progress_bar = <<>> /\ status_text = ""

(* C19 as stated: the values are 0, then 20/40 or 40, then 60, 80, 90, 100 *)
(* in every run.                                                           *)
C19_AsStated ==
    /\ ProgressBehaves
    /\ IsPrefix(progress_log, ListedValues)

(* C19: within a run the progress value only increases, through the listed *)
(* values in app_fixed and through 0, 25, 75, 90, 100 in app_new; 100 is   *)
(* reached only when the prediction count is 17; and on every path on      *)
(* which the run ends the progress bar and the status text are cleared.    *)
C19_Progress ==
    /\ ProgressBehaves
    /\ IsPrefix(progress_log,
                IF app = "app_new" THEN ProgressValues(app) ELSE ListedValues)
    /\ (app = "app_fixed" /\ ~has_instagram_url) =>
          ListedValues = ProgressValues(app)

(* An Instagram run that ended after the service answered, short of 100.   *)
C19_Witness ==
    /\ app = "app_fixed"
    /\ has_instagram_url
    /\ pc = "done"
    /\ progress_log = <<0, 20, 40, 60, 80, 90>>
    /\ progress_bar = <<>> /\ status_text = ""
    /\ InUi(El("error", MsgInvalid(16)))

(* send_video_to_api has been called in this run: its POST was issued, or  *)
(* reading the video failed before the POST.                               *)
SendCalled ==
    \/ posts = 1
    \/ response # NoResponse
    \/ InUi(El("error", MsgFailed))

(* C20: in app_fixed send_video_to_api is never called with None for the   *)
(* video: it is given the downloaded video in a run with a valid Instagram *)
(* URL and the uploaded file, which then exists, otherwise; and the file   *)
(* name of the download is built from uploaded_file.name only in a run     *)
(* with an uploaded file and no valid URL, every run with a valid URL      *)
(* using the Instagram name, so building it never fails.                   *)
C20_NoMissingObject ==
    app = "app_fixed" =>
        /\ SendCalled =>
              /\ video_to_process # "None"
              /\ video_to_process =
                    (IF has_instagram_url THEN "instagram_video.mp4" ELSE uploaded_file)
        /\ ~SendCalled => video_to_process = "None"
        /\ df # <<>> => FileName(app, has_instagram_url, uploaded_file).ok
        /\ (pc = "done" /\ df # <<>> /\ AllNumbers(response.items)) => results # <<>>
        /\ results # <<>> =>
              results[1].file_name =
                  (IF has_instagram_url THEN "instagram_analysis_<time>.csv"
                   ELSE "video_analysis_" \o uploaded_file \o "_<time>.csv")
        /\ (results # <<>> /\ ~has_instagram_url) => uploaded_file # "None"

(* The results of an Instagram run with no uploaded file.                  *)
C20_Witness ==
    /\ app = "app_fixed"
    /\ has_instagram_url
    /\ uploaded_file = "None"
    /\ video_to_process = "instagram_video.mp4"
    /\ results # <<>>
    /\ results[1].file_name = "instagram_analysis_<time>.csv"

====
